---- MODULE Spec2Model ----
(***************************************************************************)
(* Model of NetPeek's NetworkScanner (src/src/scanner.py).                 *)
(*                                                                         *)
(* Text is modelled as a sequence of one-character strings, so that the    *)
(* string operations of the source (in, rsplit, split, int, f-strings,     *)
(* ipaddress.IPv4Address, ipaddress.ip_network) are computed, not assumed. *)
(* An IPv4Address object is modelled by its 32-bit integer value.          *)
(***************************************************************************)
EXTENDS Integers, Sequences, FiniteSets

(***************************************************************************)
(* Bounds of the model.                                                    *)
(***************************************************************************)
\* number of start_scan calls that start an orchestration thread
MaxScans == 2
\* number of entries of common_ports a probe tries
MaxPorts == 1
\* number of hosts, over all scans of a run, that scans are started for
MaxHosts == 2

(***************************************************************************)
(* Text helpers: str.split, str.rsplit, int(), str(int), '.'.join          *)
(***************************************************************************)
Digits == <<"0", "1", "2", "3", "4", "5", "6", "7", "8", "9">>

IsDigit(c) == \E i \in 1..10 : Digits[i] = c

DigitVal(c) == (CHOOSE i \in 1..10 : Digits[i] = c) - 1

\* the `in` operator on a str and a one-character str
Contains(s, ch) == \E i \in 1..Len(s) : s[i] = ch

\* s.rsplit(ch, 1) for a text that contains ch: split at the LAST ch
rsplit(s, ch) ==
    LET i == CHOOSE k \in 1..Len(s) :
                 s[k] = ch /\ \A j \in (k + 1)..Len(s) : s[j] # ch
    IN  <<SubSeq(s, 1, i - 1), SubSeq(s, i + 1, Len(s))>>

\* s.split(ch): the pieces between every ch (empty pieces kept)
RECURSIVE split(_, _)
split(s, ch) ==
    IF ~Contains(s, ch) THEN <<s>>
    ELSE LET i == CHOOSE k \in 1..Len(s) :
                      s[k] = ch /\ \A j \in 1..(k - 1) : s[j] # ch
         IN  <<SubSeq(s, 1, i - 1)>> \o split(SubSeq(s, i + 1, Len(s)), ch)

\* ch.join(parts)
RECURSIVE join(_, _)
join(parts, ch) ==
    IF Len(parts) = 0 THEN <<>>
    ELSE IF Len(parts) = 1 THEN parts[1]
    ELSE parts[1] \o <<ch>> \o join(Tail(parts), ch)

\* int(s) succeeds: over the model's alphabet (digits . - / x), a non-empty
\* run of decimal digits; leading zeros are accepted by int()
IntOk(s) == Len(s) > 0 /\ \A i \in 1..Len(s) : IsDigit(s[i])

RECURSIVE IntVal(_)
IntVal(s) ==
    IF Len(s) = 0 THEN 0
    ELSE 10 * IntVal(SubSeq(s, 1, Len(s) - 1)) + DigitVal(s[Len(s)])

\* str(n) / f"{n}" of a non-negative int
RECURSIVE DecStr(_)
DecStr(n) ==
    IF n < 10 THEN <<Digits[n + 1]>>
    ELSE DecStr(n \div 10) \o <<Digits[(n % 10) + 1]>>

(***************************************************************************)
(* ipaddress (CPython standard library, as called by the source)           *)
(***************************************************************************)
\* one octet of IPv4Address(text): decimal digits only, at most 3 of them,
\* no leading zero, value at most 255
OctetOk(o) ==
    /\ IntOk(o)
    /\ Len(o) <= 3
    /\ (Len(o) > 1 => o[1] # "0")
    /\ IntVal(o) <= 255

\* ipaddress.IPv4Address(text) does not raise
IPv4Ok(s) ==
    LET p == split(s, ".")
    IN  Len(p) = 4 /\ \A i \in 1..4 : OctetOk(p[i])

\* the integer value of ipaddress.IPv4Address(text)
IPv4Int(s) ==
    LET p == split(s, ".")
    IN  ((IntVal(p[1]) * 256 + IntVal(p[2])) * 256 + IntVal(p[3])) * 256
            + IntVal(p[4])

\* str(IPv4Address): dotted decimal
IPv4Str(n) ==
    join(<<DecStr(n \div 16777216), DecStr((n \div 65536) % 256),
           DecStr((n \div 256) % 256), DecStr(n % 256)>>, ".")

\* ipaddress.ip_network(text, strict=False) does not raise: exactly one '/',
\* an IPv4 address before it, a decimal prefix length 0..32 after it
NetworkOk(s) ==
    LET p == split(s, "/")
    IN  /\ Len(p) = 2
        /\ IPv4Ok(p[1])
        /\ IntOk(p[2])
        /\ IntVal(p[2]) <= 32

Pow2(n) == IF n = 0 THEN 1 ELSE 2 ^ n

\* every address of the network, as list(net) would yield them
NetworkAddresses(s) ==
    LET p    == split(s, "/")
        size == Pow2(32 - IntVal(p[2]))
        addr == IPv4Int(p[1])
        net  == addr - (addr % size)
    IN  [k \in 1..size |-> net + k - 1]

\* list(ip_network(text, strict=False).hosts()): the host bits of the
\* address are masked off; network and broadcast address are left out,
\* except that a /31 yields both its addresses and a /32 its one address
NetworkHosts(s) ==
    LET p    == split(s, "/")
        len  == IntVal(p[2])
        size == Pow2(32 - len)
        addr == IPv4Int(p[1])
        net  == addr - (addr % size)
    IN  IF len = 32 THEN <<addr>>
        ELSE IF len = 31 THEN <<net, net + 1>>
        ELSE [k \in 1..(size - 2) |-> net + k]

(***************************************************************************)
(* NetworkScanner.parse_ip_range and NetworkScanner.validate_ip_range      *)
(***************************************************************************)
Raised == [ok |-> FALSE, hosts |-> <<>>]

Returned(h) == [ok |-> TRUE, hosts |-> h]

\* the comprehension with range(start_ip, end_ip): the end-bound left out
SuffixHostsExclusive(base_network, start_ip, end_ip) ==
    IF \E i \in start_ip..(end_ip - 1) :
           ~IPv4Ok(base_network \o <<".">> \o DecStr(i))
    THEN [ok |-> FALSE, hosts |-> <<>>]
    ELSE [ok |-> TRUE,
          hosts |-> [k \in 1..(IF end_ip <= start_ip THEN 0 ELSE end_ip - start_ip) |->
                       IPv4Int(base_network \o <<".">> \o DecStr(start_ip + k - 1))]]

\* lines 142-143: one IPv4Address per i in range(start_ip, end_ip + 1); the
\* first address that does not parse raises; an empty range raises nothing
SuffixHosts(base_network, start_ip, end_ip) ==
    IF \E i \in start_ip..end_ip :
           ~IPv4Ok(base_network \o <<".">> \o DecStr(i))
    THEN Raised
    ELSE Returned([k \in 1..(IF end_ip < start_ip THEN 0 ELSE end_ip - start_ip + 1) |->
                     IPv4Int(base_network \o <<".">> \o DecStr(start_ip + k - 1))])

parse_ip_range(ip_range) ==
    IF Contains(ip_range, "/") THEN
        IF NetworkOk(ip_range) THEN Returned(NetworkHosts(ip_range)) ELSE Raised
    ELSE IF Contains(ip_range, "-") THEN
        LET sp         == rsplit(ip_range, "-")
            base_ip    == sp[1]
            range_part == sp[2]
            base_parts == split(base_ip, ".")
        IN  IF Len(base_parts) = 4 THEN
                IF IntOk(base_parts[4]) /\ IntOk(range_part)
                THEN SuffixHosts(join(SubSeq(base_parts, 1, 3), "."),
                                 IntVal(base_parts[4]), IntVal(range_part))
                ELSE Raised
            ELSE IF Len(base_parts) = 3 THEN
                IF IntOk(range_part)
                THEN SuffixHosts(base_ip, 1, IntVal(range_part))
                ELSE Raised
            ELSE Raised
    ELSE
        IF IPv4Ok(ip_range) THEN Returned(<<IPv4Int(ip_range)>>) ELSE Raised

\* the boolean of the (valid, message) pair
validate_ip_range(ip_range) ==
    IF Len(ip_range) = 0 THEN FALSE
    ELSE IF Contains(ip_range, "/") THEN NetworkOk(ip_range)
    ELSE IF Contains(ip_range, "-") THEN
        LET sp         == rsplit(ip_range, "-")
            base_ip    == sp[1]
            range_part == sp[2]
            base_parts == split(base_ip, ".")
        IN  IF Len(base_parts) = 4 THEN IPv4Ok(base_ip) /\ IntOk(range_part)
            ELSE IF Len(base_parts) = 3
            THEN IPv4Ok(base_ip \o <<".", "1">>) /\ IntOk(range_part)
            ELSE FALSE
    ELSE IPv4Ok(ip_range)


(***************************************************************************)
(* Range expressions given to the scanner                                  *)
(***************************************************************************)
T0 == <<"0">>
T1 == <<"1">>
T5 == <<"5">>
T9 == <<"9">>
T10 == <<"1", "0">>
T100 == <<"1", "0", "0">>
T255 == <<"2", "5", "5">>
T256 == <<"2", "5", "6">>
T29 == <<"2", "9">>
T30 == <<"3", "0">>
T31 == <<"3", "1">>
T32 == <<"3", "2">>
T33 == <<"3", "3">>
Tx == <<"x">>
Empty == <<>>

\* the text of an expression made of a dotted base, a separator and a tail
Text(base, sep, tail) ==
    join(base, ".") \o (IF sep = "none" THEN <<>> ELSE <<sep>> \o tail)

\* the expressions start_scan is called with: a range of two hosts whose text
\* order and numeric order differ, one host, and a range that does not parse
ScanExprs ==
    { Text(<<T10, T0, T0, T9>>, "-", T10),
      Text(<<T10, T0, T0, T5>>, "none", Empty),
      Text(<<T10, T0, T0, T255>>, "-", T256) }

(***************************************************************************)
(* State                                                                   *)
(***************************************************************************)
VARIABLES
    is_scanning,      \* self.is_scanning
    hosts_scanned,    \* self.hosts_scanned
    total_hosts,      \* self.total_hosts
    partial_results,  \* self.partial_results
    progress_calls,   \* per scan: the (scanned, total) handed to GLib.idle_add
    complete_calls,   \* per scan: the device lists handed to GLib.idle_add
    error_calls,      \* per scan: number of error callbacks handed to GLib.idle_add
    pc,               \* position of each do_scan thread
    ip_range,         \* argument of each scan_network call that started a thread
    hosts,            \* do_scan's local hosts
    idx,              \* do_scan's position in its submit / wait loop
    devices,          \* do_scan's local devices
    task,             \* the futures of do_scan's executor and their workers
    stopped,          \* history: stop_scan was called while the scan was in flight
    early_stop,       \* history: stop_scan came before any worker completed
    snapshot,         \* the result of the last get_partial_results() call
    pool,             \* worker-pool check: per executor, futures queued / running
    range_expr,       \* parser check: the expression under test
    parse_result,     \* parser check: result of parse_ip_range
    validate_result   \* parser check: result of validate_ip_range

vars == <<is_scanning, hosts_scanned, total_hosts, partial_results,
          progress_calls, complete_calls, error_calls, pc, ip_range, hosts, idx,
          devices, task, stopped, early_stop, snapshot, pool, range_expr,
          parse_result, validate_result>>

parseVars == <<range_expr, parse_result, validate_result>>

Scans == 1..MaxScans

common_ports == <<22, 80, 443, 3389, 53, 21, 23, 8080, 8443, 8006, 5000>>

max_workers == 100

\* the ports a probe tries
Ports == SubSeq(common_ports, 1,
                IF MaxPorts < Len(common_ports) THEN MaxPorts ELSE Len(common_ports))

NoDevice == [hostname |-> <<>>, ip |-> <<>>, ports |-> <<>>]

NewTask == [pc |-> "pending", k |-> 1, alive |-> FALSE, open_ports |-> <<>>,
            device |-> NoDevice]

\* a do_scan thread exists and has not returned
InFlight(s) == pc[s] \notin {"unused", "done"}

\* the scan of the latest start_scan call that started a thread (0: none)
Current == Cardinality({s \in Scans : pc[s] # "unused"})

Finished(t) == t.pc \in {"done", "dropped", "cancelled"}

Executing(t) == t.pc \notin {"pending", "done", "dropped", "cancelled"}

(***************************************************************************)
(* sorted(..., key=lambda x: ipaddress.IPv4Address(x['ip']))               *)
(***************************************************************************)
DeviceKey(d) == IPv4Int(d.ip)

\* insert d after the last element whose key is <= its own (stable)
RECURSIVE Insert(_, _)
Insert(sorted, d) ==
    IF Len(sorted) = 0 THEN <<d>>
    ELSE IF DeviceKey(sorted[Len(sorted)]) <= DeviceKey(d) THEN Append(sorted, d)
    ELSE Append(Insert(SubSeq(sorted, 1, Len(sorted) - 1), d), sorted[Len(sorted)])

Unsorted(devs) == devs

RECURSIVE sorted_by_ip(_)
sorted_by_ip(devs) ==
    IF Len(devs) = 0 THEN <<>>
    ELSE Insert(sorted_by_ip(SubSeq(devs, 1, Len(devs) - 1)), devs[Len(devs)])

(***************************************************************************)
(* Initial state: NetworkScanner.__init__                                  *)
(***************************************************************************)
EmptyPool == [queued |-> 0, running |-> 0]

NoSnapshot == [called |-> FALSE, after_early_stop |-> FALSE, result |-> <<>>]

ScanInit ==
    /\ is_scanning = FALSE
    /\ hosts_scanned = 0
    /\ total_hosts = 0
    /\ partial_results = <<>>
    /\ progress_calls = [s \in Scans |-> <<>>]
    /\ complete_calls = [s \in Scans |-> <<>>]
    /\ error_calls = [s \in Scans |-> 0]
    /\ pc = [s \in Scans |-> "unused"]
    /\ ip_range = [s \in Scans |-> <<>>]
    /\ hosts = [s \in Scans |-> <<>>]
    /\ idx = [s \in Scans |-> 0]
    /\ devices = [s \in Scans |-> <<>>]
    /\ task = [s \in Scans |-> <<>>]
    /\ stopped = [s \in Scans |-> FALSE]
    /\ early_stop = FALSE
    /\ snapshot = NoSnapshot
    /\ pool = [s \in Scans |-> EmptyPool]

NotRun == [ok |-> FALSE, hosts |-> <<>>, run |-> FALSE]

NoExpr == [base |-> <<>>, sep |-> "none", tail |-> <<>>]

ParseIdle ==
    /\ range_expr = NoExpr
    /\ parse_result = NotRun
    /\ validate_result = NotRun

Init == ScanInit /\ ParseIdle

(***************************************************************************)
(* Calls of the user interface                                             *)
(***************************************************************************)
\* the hosts of the ranges the first n scans were started with
RECURSIVE Planned(_)
Planned(n) ==
    IF n = 0 THEN 0
    ELSE Planned(n - 1) + Len(parse_ip_range(ip_range[n]).hosts)

\* scan_network, lines 196-197: start a do_scan thread unless is_scanning
scan_network(e) ==
    /\ \/ is_scanning
       \/ /\ Current < MaxScans
          /\ Planned(Current) + Len(parse_ip_range(e).hosts) <= MaxHosts
    /\ IF is_scanning
       THEN UNCHANGED <<pc, ip_range>>
       ELSE /\ pc' = [pc EXCEPT ![Current + 1] = "begin"]
            /\ ip_range' = [ip_range EXCEPT ![Current + 1] = e]
    /\ early_stop' = FALSE
    /\ snapshot' = NoSnapshot
    /\ UNCHANGED <<is_scanning, hosts_scanned, total_hosts, partial_results,
                   progress_calls, complete_calls, error_calls, hosts, idx,
                   devices, task, stopped>>
    /\ UNCHANGED <<parseVars, pool>>

\* a stop_scan that also resets the counter and the accumulator
stop_scan_resets ==
    /\ is_scanning' = FALSE
    /\ hosts_scanned' = 0
    /\ partial_results' = <<>>
    /\ stopped' = [s \in Scans |-> stopped[s] \/ InFlight(s)]
    /\ early_stop' =
          (\/ early_stop
           \/ /\ Current > 0
              /\ \A i \in 1..Len(task[Current]) : task[Current][i].pc # "done")
    /\ snapshot' = NoSnapshot
    /\ UNCHANGED <<total_hosts, progress_calls, complete_calls, error_calls, pc,
                   ip_range, hosts, idx, devices, task>>
    /\ UNCHANGED <<parseVars, pool>>

\* stop_scan, lines 199-201
stop_scan ==
    /\ is_scanning' = FALSE
    /\ stopped' = [s \in Scans |-> stopped[s] \/ InFlight(s)]
    /\ early_stop' =
          (\/ early_stop
           \/ /\ Current > 0
              /\ \A i \in 1..Len(task[Current]) : task[Current][i].pc # "done")
    /\ snapshot' = NoSnapshot
    /\ UNCHANGED <<hosts_scanned, total_hosts, partial_results, progress_calls,
                   complete_calls, error_calls, pc, ip_range, hosts, idx,
                   devices, task>>
    /\ UNCHANGED <<parseVars, pool>>

\* get_partial_results, lines 203-205
get_partial_results ==
    /\ snapshot' = [called |-> TRUE, after_early_stop |-> early_stop,
                    result |-> sorted_by_ip(partial_results)]
    /\ UNCHANGED <<is_scanning, hosts_scanned, total_hosts, partial_results,
                   progress_calls, complete_calls, error_calls, pc, ip_range,
                   hosts, idx, devices, task, stopped, early_stop>>
    /\ UNCHANGED <<parseVars, pool>>

(***************************************************************************)
(* do_scan: the orchestration thread of scan s                             *)
(***************************************************************************)
ScanFailedKeepsFlag(s) ==
    /\ is_scanning' = TRUE
    /\ error_calls' = [error_calls EXCEPT ![s] = @ + 1]
    /\ pc' = [pc EXCEPT ![s] = "done"]

\* lines 192-194: the except clause of do_scan
ScanFailed(s) ==
    /\ is_scanning' = FALSE
    /\ error_calls' = [error_calls EXCEPT ![s] = @ + 1]
    /\ pc' = [pc EXCEPT ![s] = "done"]

\* lines 152-164, and the except clause when parse_ip_range raises
DoScanBegin(s) ==
    /\ pc[s] = "begin"
    /\ partial_results' = <<>>
    /\ hosts_scanned' = 0
    /\ devices' = [devices EXCEPT ![s] = <<>>]
    /\ LET r == parse_ip_range(ip_range[s])
       IN  IF r.ok
           THEN /\ is_scanning' = TRUE
                /\ hosts' = [hosts EXCEPT ![s] = r.hosts]
                /\ total_hosts' = Len(r.hosts)
                /\ progress_calls' =
                      [progress_calls EXCEPT ![s] = Append(@, <<0, Len(r.hosts)>>)]
                /\ idx' = [idx EXCEPT ![s] = 1]
                /\ pc' = [pc EXCEPT ![s] =
                            IF Len(r.hosts) = 0 THEN "shutdown" ELSE "submit"]
                /\ UNCHANGED error_calls
           ELSE /\ ScanFailed(s)
                /\ UNCHANGED <<hosts, total_hosts, idx, progress_calls>>
    /\ UNCHANGED <<complete_calls, ip_range, task, stopped, early_stop, snapshot>>
    /\ UNCHANGED <<parseVars, pool>>

\* lines 168-172: one iteration of the submit loop
DoScanSubmit(s) ==
    /\ pc[s] = "submit"
    /\ IF ~is_scanning
       THEN /\ pc' = [pc EXCEPT ![s] =
                        IF Len(task[s]) = 0 THEN "shutdown" ELSE "wait"]
            /\ idx' = [idx EXCEPT ![s] = 1]
            /\ UNCHANGED task
       ELSE /\ task' = [task EXCEPT ![s] = Append(@, NewTask)]
            /\ IF idx[s] = Len(hosts[s])
               THEN /\ pc' = [pc EXCEPT ![s] = "wait"]
                    /\ idx' = [idx EXCEPT ![s] = 1]
               ELSE /\ idx' = [idx EXCEPT ![s] = @ + 1]
                    /\ UNCHANGED pc
    /\ UNCHANGED <<is_scanning, hosts_scanned, total_hosts, partial_results,
                   progress_calls, complete_calls, error_calls, ip_range, hosts,
                   devices, stopped, early_stop, snapshot>>
    /\ UNCHANGED <<parseVars, pool>>

\* lines 175-184: one iteration of the wait loop. future.result(timeout=1)
\* returns when the future is done and raises after a second otherwise; the
\* loop goes on to the next future either way
DoScanWait(s) ==
    /\ pc[s] = "wait"
    /\ IF ~is_scanning
       THEN /\ task' = [task EXCEPT ![s] =
                          [i \in 1..Len(@) |->
                             IF @[i].pc = "pending"
                             THEN [@[i] EXCEPT !.pc = "cancelled"] ELSE @[i]]]
            /\ pc' = [pc EXCEPT ![s] = "shutdown"]
            /\ UNCHANGED idx
       ELSE /\ IF idx[s] = Len(task[s])
               THEN /\ pc' = [pc EXCEPT ![s] = "shutdown"]
                    /\ UNCHANGED idx
               ELSE /\ idx' = [idx EXCEPT ![s] = @ + 1]
                    /\ UNCHANGED pc
            /\ UNCHANGED task
    /\ UNCHANGED <<is_scanning, hosts_scanned, total_hosts, partial_results,
                   progress_calls, complete_calls, error_calls, ip_range, hosts,
                   devices, stopped, early_stop, snapshot>>
    /\ UNCHANGED <<parseVars, pool>>

\* line 166, leaving the with block: executor.shutdown(wait=True) returns
\* once every future has run to its end or was cancelled; then lines 187-188
DoScanFinal(s) ==
    /\ pc[s] = "shutdown"
    /\ \A i \in 1..Len(task[s]) : Finished(task[s][i])
    /\ IF is_scanning
       THEN /\ is_scanning' = FALSE
            /\ pc' = [pc EXCEPT ![s] = "callback"]
       ELSE /\ UNCHANGED is_scanning
            /\ pc' = [pc EXCEPT ![s] = "done"]
    /\ UNCHANGED <<hosts_scanned, total_hosts, partial_results, progress_calls,
                   complete_calls, error_calls, ip_range, hosts, idx, devices,
                   task, stopped, early_stop, snapshot>>
    /\ UNCHANGED <<parseVars, pool>>

\* lines 189-190: sort the devices and hand the completion callback over
DoScanComplete(s) ==
    /\ pc[s] = "callback"
    /\ complete_calls' =
          [complete_calls EXCEPT ![s] = Append(@, sorted_by_ip(devices[s]))]
    /\ pc' = [pc EXCEPT ![s] = "done"]
    /\ UNCHANGED <<is_scanning, hosts_scanned, total_hosts, partial_results,
                   progress_calls, error_calls, ip_range, hosts, idx, devices,
                   task, stopped, early_stop, snapshot>>
    /\ UNCHANGED <<parseVars, pool>>

(***************************************************************************)
(* scan_single_ip: the worker of future i of scan s                        *)
(***************************************************************************)
SetTask(s, i, t) == task' = [task EXCEPT ![s][i] = t]

\* the str(host) of line 171
HostText(s, i) == IPv4Str(hosts[s][i])

\* line 108: the text of the open ports, or the message for none
PortsText(open_ports) ==
    IF Len(open_ports) = 0 THEN <<"Host alive (no open ports detected)">>
    ELSE join([j \in 1..Len(open_ports) |-> DecStr(open_ports[j])], ", ")

\* a pool thread takes the future off the executor's queue and enters
\* scan_single_ip, lines 74-78
WorkerStart(s, i) ==
    /\ task[s][i].pc = "pending"
    /\ Cardinality({j \in 1..Len(task[s]) : Executing(task[s][j])}) < max_workers
    /\ SetTask(s, i, [task[s][i] EXCEPT !.pc =
                        IF is_scanning THEN "ports" ELSE "dropped"])
    /\ UNCHANGED <<is_scanning, hosts_scanned, total_hosts, partial_results,
                   progress_calls, complete_calls, error_calls, pc, ip_range,
                   hosts, idx, devices, stopped, early_stop, snapshot>>
    /\ UNCHANGED <<parseVars, pool>>

\* lines 80-85: one iteration of the port loop; is_port_open answers either way
WorkerPort(s, i) ==
    /\ task[s][i].pc = "ports"
    /\ LET t == task[s][i]
       IN  IF ~is_scanning
           THEN SetTask(s, i, [t EXCEPT !.pc = "dropped"])
           ELSE \E open \in BOOLEAN :
                  LET a  == t.alive \/ open
                      op == IF open THEN Append(t.open_ports, Ports[t.k])
                            ELSE t.open_ports
                  IN  SetTask(s, i,
                        [t EXCEPT !.alive = a, !.open_ports = op,
                                  !.k = IF t.k = Len(Ports) THEN @ ELSE @ + 1,
                                  !.pc = IF t.k < Len(Ports) THEN "ports"
                                         ELSE IF a THEN "record" ELSE "liveness"])
    /\ UNCHANGED <<is_scanning, hosts_scanned, total_hosts, partial_results,
                   progress_calls, complete_calls, error_calls, pc, ip_range,
                   hosts, idx, devices, stopped, early_stop, snapshot>>
    /\ UNCHANGED <<parseVars, pool>>

\* lines 87-96, reached with alive = False: the connect to port 80 and the
\* ping answer either way; with the flag cleared the block is skipped
WorkerLiveness(s, i) ==
    /\ task[s][i].pc = "liveness"
    /\ IF is_scanning
       THEN \E answer \in BOOLEAN :
              SetTask(s, i, [task[s][i] EXCEPT !.alive = answer, !.pc = "record"])
       ELSE SetTask(s, i, [task[s][i] EXCEPT !.pc = "record"])
    /\ UNCHANGED <<is_scanning, hosts_scanned, total_hosts, partial_results,
                   progress_calls, complete_calls, error_calls, pc, ip_range,
                   hosts, idx, devices, stopped, early_stop, snapshot>>
    /\ UNCHANGED <<parseVars, pool>>

\* lines 98-109: gethostbyaddr yields a name or raises
WorkerRecord(s, i) ==
    /\ task[s][i].pc = "record"
    /\ LET t == task[s][i]
       IN  IF t.alive /\ is_scanning
           THEN \E resolved \in BOOLEAN :
                  SetTask(s, i,
                    [t EXCEPT !.pc = "append",
                              !.device =
                                 [hostname |-> IF resolved THEN <<"host">>
                                               ELSE HostText(s, i),
                                  ip       |-> HostText(s, i),
                                  ports    |-> PortsText(t.open_ports)]])
           ELSE SetTask(s, i, [t EXCEPT !.pc = "count"])
    /\ UNCHANGED <<is_scanning, hosts_scanned, total_hosts, partial_results,
                   progress_calls, complete_calls, error_calls, pc, ip_range,
                   hosts, idx, devices, stopped, early_stop, snapshot>>
    /\ UNCHANGED <<parseVars, pool>>

\* lines 111-113: the first critical section
WorkerAppend(s, i) ==
    /\ task[s][i].pc = "append"
    /\ devices' = [devices EXCEPT ![s] = Append(@, task[s][i].device)]
    /\ partial_results' = Append(partial_results, task[s][i].device)
    /\ SetTask(s, i, [task[s][i] EXCEPT !.pc = "count"])
    /\ UNCHANGED <<is_scanning, hosts_scanned, total_hosts, progress_calls,
                   complete_calls, error_calls, pc, ip_range, hosts, idx,
                   stopped, early_stop, snapshot>>
    /\ UNCHANGED <<parseVars, pool>>

\* lines 116-119: the second critical section
WorkerCount(s, i) ==
    /\ task[s][i].pc = "count"
    /\ hosts_scanned' = hosts_scanned + 1
    /\ progress_calls' =
          [progress_calls EXCEPT ![s] = Append(@, <<hosts_scanned + 1, total_hosts>>)]
    /\ SetTask(s, i, [task[s][i] EXCEPT !.pc = "done"])
    /\ UNCHANGED <<is_scanning, total_hosts, partial_results, complete_calls,
                   error_calls, pc, ip_range, hosts, idx, devices, stopped,
                   early_stop, snapshot>>
    /\ UNCHANGED <<parseVars, pool>>

(***************************************************************************)
(* The scanner                                                             *)
(***************************************************************************)
Next ==
    \/ \E e \in ScanExprs : scan_network(e)
    \/ stop_scan
    \/ get_partial_results
    \/ \E s \in Scans : DoScanBegin(s)
    \/ \E s \in Scans : DoScanSubmit(s)
    \/ \E s \in Scans : DoScanWait(s)
    \/ \E s \in Scans : DoScanFinal(s)
    \/ \E s \in Scans : DoScanComplete(s)
    \/ \E s \in Scans : \E i \in 1..Len(task[s]) : WorkerStart(s, i)
    \/ \E s \in Scans : \E i \in 1..Len(task[s]) : WorkerPort(s, i)
    \/ \E s \in Scans : \E i \in 1..Len(task[s]) : WorkerLiveness(s, i)
    \/ \E s \in Scans : \E i \in 1..Len(task[s]) : WorkerRecord(s, i)
    \/ \E s \in Scans : \E i \in 1..Len(task[s]) : WorkerAppend(s, i)
    \/ \E s \in Scans : \E i \in 1..Len(task[s]) : WorkerCount(s, i)

Spec == Init /\ [][Next]_vars

(***************************************************************************)
(* Properties of the scanner                                               *)
(***************************************************************************)
\* C1: while a scan is in flight and stop_scan has not been called on it, a
\* start_scan call starts no second orchestration task
C1_SecondStartIgnored ==
    Cardinality({s \in Scans : InFlight(s) /\ ~stopped[s]}) <= 1

\* C2: a scan on which stop_scan was called before it completed never hands
\* its completion callback to the main loop
C2_StoppedNeverCompletes ==
    \A s \in Scans : stopped[s] => complete_calls[s] = <<>>

\* C3: when stop_scan was called before any worker of the current scan had
\* completed, get_partial_results() returns an empty list until the next
\* start_scan
C3_EarlyStopEmptyPartial ==
    (snapshot.called /\ snapshot.after_early_stop) => snapshot.result = <<>>

\* C4: the scanned values of the progress callbacks of one scan are strictly
\* increasing
C4_ProgressStrictlyIncreasing ==
    \A s \in Scans : \A i \in 1..(Len(progress_calls[s]) - 1) :
        progress_calls[s][i][1] < progress_calls[s][i + 1][1]

\* C5 (as a property of finished runs): a do_scan thread that has returned,
\* was never stopped and did not fail has handed over a progress callback
\* with scanned = total and then its completion callback
C5_UnstoppedScanCompletes ==
    \A s \in Scans :
        (pc[s] = "done" /\ ~stopped[s] /\ error_calls[s] = 0)
            => /\ Len(complete_calls[s]) = 1
               /\ \E i \in 1..Len(progress_calls[s]) :
                     /\ progress_calls[s][i][1] = progress_calls[s][i][2]
                     /\ progress_calls[s][i][2] = Len(hosts[s])

\* the hosts of scan s whose probe found them alive
AliveHosts(s) ==
    { HostText(s, i) : i \in { j \in 1..Len(task[s]) : task[s][j].alive } }

\* C6: a device list handed to the completion callback holds a Device for
\* exactly the hosts of the range whose probe found them alive, and such a
\* scan hands over no error callback
C6_CompleteListIsAliveHosts ==
    \A s \in Scans : \A n \in 1..Len(complete_calls[s]) :
        /\ { complete_calls[s][n][j].ip : j \in 1..Len(complete_calls[s][n]) }
              = AliveHosts(s)
        /\ error_calls[s] = 0

\* Devices are identified by their ip: of two Devices with different
\* addresses, the one with the smaller numeric address comes first
SortedByNumericIp(list) ==
    \A i, j \in 1..Len(list) :
        list[i].ip # list[j].ip
            => (i < j <=> IPv4Int(list[i].ip) < IPv4Int(list[j].ip))

\* C7: the list handed to the completion callback and every list returned
\* by get_partial_results() is sorted by numeric IP ascending
C7_ListsSorted ==
    /\ \A s \in Scans : \A n \in 1..Len(complete_calls[s]) :
          SortedByNumericIp(complete_calls[s][n])
    /\ snapshot.called => SortedByNumericIp(snapshot.result)

Host10 == Text(<<T10, T0, T0, T10>>, "none", Empty)

\* a scan found 10.0.0.10 before 10.0.0.9, completed, and
\* get_partial_results() was called afterwards
C7_Witness ==
    \E s \in Scans :
        /\ Len(complete_calls[s]) = 1
        /\ Len(complete_calls[s][1]) = 2
        /\ devices[s][1].ip = Host10
        /\ snapshot.called
        /\ Len(snapshot.result) = 2
        /\ partial_results[1].ip = Host10

BadRange == Text(<<T10, T0, T0, T255>>, "-", T256)

\* C8: a scan whose range does not parse hands over one error callback,
\* submits no worker, hands over no completion callback, and its failing
\* step leaves the running flag cleared
C8_ParseFailure ==
    /\ [](\A s \in Scans :
             (ip_range[s] = BadRange /\ pc[s] = "done")
                 => /\ error_calls[s] = 1
                    /\ task[s] = <<>>
                    /\ complete_calls[s] = <<>>)
    /\ [][\A s \in Scans :
             (ip_range[s] = BadRange /\ pc[s] = "begin" /\ pc'[s] = "done")
                 => is_scanning' = FALSE]_vars

\* a scan of the unparsable range has failed while another scan was running
C8_Witness ==
    \E s \in Scans :
        /\ ip_range[s] = BadRange
        /\ pc[s] = "done"
        /\ error_calls[s] = 1
        /\ \E o \in Scans : o # s /\ pc[o] \in {"submit", "wait", "shutdown"}

\* C13: a stop_scan step leaves scanned-count, total-count and the
\* accumulator unchanged and hands over no callback; when the running flag
\* is not set it changes nothing of the scanner at all
C13_StopScanFrame ==
    [][stop_scan =>
          /\ UNCHANGED <<hosts_scanned, total_hosts, partial_results,
                         progress_calls, complete_calls, error_calls>>
          /\ ~is_scanning =>
                UNCHANGED <<is_scanning, pc, ip_range, hosts, idx, devices, task>>]_vars

\* stop_scan was called on a scan in flight after a Device had been
\* appended and counted
C13_Witness ==
    \E s \in Scans :
        /\ stopped[s]
        /\ InFlight(s)
        /\ ~is_scanning
        /\ hosts_scanned > 0
        /\ partial_results # <<>>

\* C14: while a scan is in flight, in every state between critical sections
\* the accumulator holds at most scanned-count Devices
C14_AppendWithCount ==
    (\E s \in Scans : InFlight(s)) => Len(partial_results) <= hosts_scanned

\* C15: a probe that finds the running flag cleared at task entry, before a
\* port attempt or before the fallback liveness check returns at once: its
\* step ends the task
C15_CheckpointsReturn ==
    [][\A s \in Scans : \A i \in 1..Len(task[s]) :
          ( /\ ~is_scanning
            /\ task[s][i].pc \in {"pending", "ports", "liveness"}
            /\ task'[s][i] # task[s][i]
            /\ task'[s][i].pc # "cancelled" )
              => task'[s][i].pc = "dropped"]_vars

\* scan n was started after stop_scan had been called on scan o, and has
\* executed its resets
LaterScan(o, n) ==
    /\ o < n
    /\ stopped[o]
    /\ ~stopped[n]
    /\ pc[n] \notin {"unused", "begin"}

\* C17: once a new scan has started after a stop, the accumulator holds only
\* Devices of hosts of the new scan's range, scanned-count counts only the
\* new scan's workers, and the stopped scan hands over no completion callback
C17_StoppedScanIsolated ==
    \A o, n \in Scans :
        (LaterScan(o, n) /\ n = Current) =>
            /\ \A k \in 1..Len(partial_results) :
                  \E i \in 1..Len(hosts[n]) : partial_results[k].ip = HostText(n, i)
            /\ hosts_scanned
                  = Cardinality({i \in 1..Len(task[n]) : task[n][i].pc = "done"})
            /\ complete_calls[o] = <<>>

\* C18: stopped[Current] tells that stop_scan was called after the latest
\* start_scan call that started a thread; from then on the running flag
\* stays cleared until the next start_scan call
C18_FlagStaysCleared ==
    (Current > 0 /\ stopped[Current]) => ~is_scanning

\* C19: every progress callback is handed over with scanned <= total, and
\* scanned-count <= total-count in every state
C19_ScannedAtMostTotal ==
    /\ hosts_scanned <= total_hosts
    /\ \A s \in Scans : \A k \in 1..Len(progress_calls[s]) :
          progress_calls[s][k][1] <= progress_calls[s][k][2]

\* C20: the running flag is still set in the state in which the completion
\* callback is handed over
C20_CallbackBeforeFlagCleared ==
    [][\A s \in Scans :
          complete_calls'[s] # complete_calls[s] => is_scanning]_vars

(***************************************************************************)
(* The worker pools on their own. To let an executor reach its 100 workers *)
(* the futures of an executor are counted, not told apart: pool[s].queued  *)
(* futures wait in the executor's queue, pool[s].running are inside        *)
(* scan_single_ip with the flag found set at line 74. The counters, the    *)
(* accumulator and the callbacks of the workers are not followed here (no  *)
(* condition of the code reads them), nor are the history variables, and   *)
(* the submit loop and the wait loop are each taken as one step, so every  *)
(* behaviour of SpecPool is a behaviour of the scanner, seen at fewer      *)
(* points.                                                                 *)
(***************************************************************************)
\* the range the n-th start_scan call is made with: 10.0.0-100 (100 hosts)
\* first, 10.0.0.5 afterwards
PoolExpr(n) ==
    IF n = 1 THEN Text(<<T10, T0, T0>>, "-", T100)
    ELSE Text(<<T10, T0, T0, T5>>, "none", Empty)

\* scan_network, lines 196-197
PoolScanNetwork ==
    /\ is_scanning \/ Current < MaxScans
    /\ IF is_scanning
       THEN UNCHANGED <<pc, ip_range>>
       ELSE /\ pc' = [pc EXCEPT ![Current + 1] = "begin"]
            /\ ip_range' = [ip_range EXCEPT ![Current + 1] = PoolExpr(Current + 1)]
    /\ UNCHANGED <<is_scanning, hosts_scanned, total_hosts, partial_results,
                   progress_calls, complete_calls, error_calls, hosts, idx,
                   devices, task, stopped, early_stop, snapshot, pool>>
    /\ UNCHANGED parseVars

\* stop_scan, lines 199-201
PoolStopScan ==
    /\ is_scanning' = FALSE
    /\ UNCHANGED <<hosts_scanned, total_hosts, partial_results, progress_calls,
                   complete_calls, error_calls, pc, ip_range, hosts, idx,
                   devices, task, stopped, early_stop, snapshot, pool>>
    /\ UNCHANGED parseVars

\* lines 166-172: the executor of this do_scan and its submit loop; with the
\* flag cleared the loop breaks before the first submit
PoolSubmit(s) ==
    /\ pc[s] = "submit"
    /\ pool' = [pool EXCEPT ![s].queued = IF is_scanning THEN Len(hosts[s]) ELSE 0]
    /\ pc' = [pc EXCEPT ![s] = "wait"]
    /\ UNCHANGED <<is_scanning, hosts_scanned, total_hosts, partial_results,
                   progress_calls, complete_calls, error_calls, ip_range, hosts,
                   idx, devices, task, stopped, early_stop, snapshot>>
    /\ UNCHANGED parseVars

\* lines 175-184: the wait loop cancels the queued futures when it finds the
\* flag cleared, and otherwise ends by results or timeouts
PoolWait(s) ==
    /\ pc[s] = "wait"
    /\ pool' = [pool EXCEPT ![s].queued = IF is_scanning THEN @ ELSE 0]
    /\ pc' = [pc EXCEPT ![s] = "shutdown"]
    /\ UNCHANGED <<is_scanning, hosts_scanned, total_hosts, partial_results,
                   progress_calls, complete_calls, error_calls, ip_range, hosts,
                   idx, devices, task, stopped, early_stop, snapshot>>
    /\ UNCHANGED parseVars

\* line 166, leaving the with block (shutdown(wait=True)), and lines 187-188
PoolFinal(s) ==
    /\ pc[s] = "shutdown"
    /\ pool[s] = EmptyPool
    /\ is_scanning' = FALSE
    /\ pc' = [pc EXCEPT ![s] = "done"]
    /\ UNCHANGED <<hosts_scanned, total_hosts, partial_results, progress_calls,
                   complete_calls, error_calls, ip_range, hosts, idx, devices,
                   task, stopped, early_stop, snapshot, pool>>
    /\ UNCHANGED parseVars

\* a thread of executor s takes a future off the queue (at most max_workers
\* threads per executor) and enters scan_single_ip, line 74
PoolWorkerStart(s) ==
    /\ pool[s].queued > 0
    /\ pool[s].running < max_workers
    /\ pool' = [pool EXCEPT ![s].queued = @ - 1,
                            ![s].running = IF is_scanning THEN @ + 1 ELSE @]
    /\ UNCHANGED <<is_scanning, hosts_scanned, total_hosts, partial_results,
                   progress_calls, complete_calls, error_calls, pc, ip_range,
                   hosts, idx, devices, task, stopped, early_stop, snapshot>>
    /\ UNCHANGED parseVars

\* scan_single_ip returns (lines 82, 119)
PoolWorkerReturn(s) ==
    /\ pool[s].running > 0
    /\ pool' = [pool EXCEPT ![s].running = @ - 1]
    /\ UNCHANGED <<is_scanning, hosts_scanned, total_hosts, partial_results,
                   progress_calls, complete_calls, error_calls, pc, ip_range,
                   hosts, idx, devices, task, stopped, early_stop, snapshot>>
    /\ UNCHANGED parseVars

PoolNext ==
    \/ PoolScanNetwork
    \/ PoolStopScan
    \/ \E s \in Scans : DoScanBegin(s)
    \/ \E s \in Scans : PoolSubmit(s)
    \/ \E s \in Scans : PoolWait(s)
    \/ \E s \in Scans : PoolFinal(s)
    \/ \E s \in Scans : PoolWorkerStart(s)
    \/ \E s \in Scans : PoolWorkerReturn(s)

SpecPool == Init /\ [][PoolNext]_vars

\* the probe tasks executing in the executors of the first n scans
RECURSIVE ProbesExecuting(_)
ProbesExecuting(n) ==
    IF n = 0 THEN 0
    ELSE ProbesExecuting(n - 1) + pool[n].running
             + Cardinality({i \in 1..Len(task[n]) : Executing(task[n][i])})

\* C16: at every moment the number of probe tasks executing concurrently is
\* at most the worker cap of 100
C16_WorkerCap ==
    ProbesExecuting(MaxScans) <= max_workers

(***************************************************************************)
(* The range parser and the validator on their own: an expression is drawn *)
(* from RangeExprs, then parse_ip_range and validate_ip_range are applied  *)
(***************************************************************************)
\* bases of four octets, of three octets, and of neither
Bases4 ==
    { <<T10, T0, T0, l>> : l \in {T0, T1, T5, T9, T10, T255, T256, Tx, Empty} }
        \cup { <<T10, T0, Tx, T1>> }

Bases3 == { <<T10, T0, T0>>, <<T10, T0, Tx>>, <<T10, T0, T256>> }

BasesOther == { <<T10, T0>>, <<T10, T0, T0, T0, T1>> }

RangeExprs ==
    LET bases == Bases4 \cup Bases3 \cup BasesOther
    IN  { [base |-> b, sep |-> "none", tail |-> Empty] : b \in bases }
          \cup { [base |-> b, sep |-> "-", tail |-> n] :
                   b \in bases, n \in {Empty, T0, T1, T5, T10, T255, T256, Tx} }
          \cup { [base |-> b, sep |-> "/", tail |-> n] :
                   b \in bases, n \in {Empty, T29, T30, T31, T32, T33, Tx} }

ExprText(x) == Text(x.base, x.sep, x.tail)

ParseInit ==
    /\ ScanInit
    /\ range_expr \in RangeExprs
    /\ parse_result = NotRun
    /\ validate_result = NotRun

scanVars == <<is_scanning, hosts_scanned, total_hosts, partial_results,
              progress_calls, complete_calls, error_calls, pc, ip_range, hosts,
              idx, devices, task, stopped, early_stop, snapshot, pool>>

Parse ==
    /\ ~parse_result.run
    /\ LET r == parse_ip_range(ExprText(range_expr))
       IN  parse_result' = [ok |-> r.ok, hosts |-> r.hosts, run |-> TRUE]
    /\ UNCHANGED <<range_expr, validate_result>>
    /\ UNCHANGED scanVars

Validate ==
    /\ ~validate_result.run
    /\ validate_result' = [ok |-> validate_ip_range(ExprText(range_expr)),
                           hosts |-> <<>>, run |-> TRUE]
    /\ UNCHANGED <<range_expr, parse_result>>
    /\ UNCHANGED scanVars

ParseNext == Parse \/ Validate

SpecParse == ParseInit /\ [][ParseNext]_vars

(***************************************************************************)
(* Properties of the parser and the validator                              *)
(***************************************************************************)
\* the start and the end-bound of a suffix range whose bounds are numerals
IsSuffixRange(x) ==
    /\ x.sep = "-"
    /\ Len(x.base) \in {3, 4}
    /\ IntOk(x.tail)
    /\ Len(x.base) = 4 => IntOk(x.base[4])

StartOf(x) == IF Len(x.base) = 4 THEN IntVal(x.base[4]) ELSE 1

EndOf(x) == IntVal(x.tail)

\* C9: parse_ip_range raises on a suffix range whose end-bound is smaller
\* than its start or whose start or end-bound lies outside 0..255, and it
\* never returns an empty host sequence
C9_BadBoundsRaise ==
    parse_result.run =>
        /\ ( /\ IsSuffixRange(range_expr)
             /\ \/ EndOf(range_expr) < StartOf(range_expr)
                \/ StartOf(range_expr) > 255
                \/ EndOf(range_expr) > 255 )
              => ~parse_result.ok
        /\ parse_result.ok => Len(parse_result.hosts) > 0

\* C10: validate_ip_range returns valid exactly when parse_ip_range succeeds
C10_ValidateIffParse ==
    (parse_result.run /\ validate_result.run)
        => (validate_result.ok <=> parse_result.ok)

\* a suffix range with a dotted-decimal prefix whose bounds lie in 0..255
\* and whose end-bound is not smaller than its start
ValidSuffixRange(x) ==
    /\ IsSuffixRange(x)
    /\ \A i \in 1..3 : OctetOk(x.base[i])
    /\ StartOf(x) <= EndOf(x)
    /\ EndOf(x) <= 255

\* the numeric value of the address prefix.0 of a suffix range
PrefixValue(x) ==
    ((IntVal(x.base[1]) * 256 + IntVal(x.base[2])) * 256 + IntVal(x.base[3])) * 256

\* C11: for a valid suffix range, parse_ip_range returns exactly the
\* addresses prefix.S .. prefix.E inclusive in ascending order (E - S + 1 of
\* them), S being the base's last octet for a 4-octet base and 1 for a
\* 3-octet base
C11_SuffixRangeHosts ==
    (parse_result.run /\ ValidSuffixRange(range_expr)) =>
        /\ parse_result.ok
        /\ Len(parse_result.hosts) = EndOf(range_expr) - StartOf(range_expr) + 1
        /\ \A k \in 1..Len(parse_result.hosts) :
              parse_result.hosts[k]
                  = PrefixValue(range_expr) + StartOf(range_expr) + k - 1

\* parse_ip_range has returned for 10.0.0.5-10 (six addresses)
C11_Witness ==
    /\ parse_result.run
    /\ range_expr = [base |-> <<T10, T0, T0, T5>>, sep |-> "-", tail |-> T10]
    /\ Len(parse_result.hosts) = 6

\* a CIDR expression: a dotted-decimal address and a prefix length 0..32
ValidCidr(x) ==
    /\ x.sep = "/"
    /\ Len(x.base) = 4
    /\ \A i \in 1..4 : OctetOk(x.base[i])
    /\ IntOk(x.tail)
    /\ IntVal(x.tail) <= 32

PrefixLen(x) == IntVal(x.tail)

\* the network address and the broadcast address of a CIDR expression
NetworkAddress(x) ==
    LET addr == PrefixValue(x) + IntVal(x.base[4])
    IN  addr - (addr % Pow2(32 - PrefixLen(x)))

BroadcastAddress(x) == NetworkAddress(x) + Pow2(32 - PrefixLen(x)) - 1

\* the sequence holds exactly the addresses of the set, in ascending order
AscendingListOf(list, set) ==
    /\ { list[k] : k \in 1..Len(list) } = set
    /\ \A k \in 1..(Len(list) - 1) : list[k] < list[k + 1]

\* C12 as stated: for every valid CIDR expression, of every prefix length,
\* parse_ip_range returns exactly the addresses of the network other than
\* its network address and its broadcast address, in ascending order
C12_CidrHostsEveryPrefix ==
    (parse_result.run /\ ValidCidr(range_expr)) =>
        /\ parse_result.ok
        /\ AscendingListOf(parse_result.hosts,
              (NetworkAddress(range_expr)..BroadcastAddress(range_expr))
                  \ {NetworkAddress(range_expr), BroadcastAddress(range_expr)})

\* C12 amended: for a valid CIDR expression of prefix length at most 30,
\* parse_ip_range returns the addresses of the network other than its
\* network address and its broadcast address, in ascending order; for a
\* prefix length of 31 or 32 it returns every address of the network
C12_CidrHosts ==
    (parse_result.run /\ ValidCidr(range_expr)) =>
        /\ parse_result.ok
        /\ AscendingListOf(parse_result.hosts,
              (NetworkAddress(range_expr)..BroadcastAddress(range_expr))
                  \ (IF PrefixLen(range_expr) <= 30
                     THEN {NetworkAddress(range_expr), BroadcastAddress(range_expr)}
                     ELSE {}))

\* parse_ip_range has returned for 10.0.0.9/29: the six addresses
\* 10.0.0.9 .. 10.0.0.14 of the network 10.0.0.8/29
C12_Witness ==
    /\ parse_result.run
    /\ range_expr = [base |-> <<T10, T0, T0, T9>>, sep |-> "/", tail |-> T29]
    /\ Len(parse_result.hosts) = 6
    /\ parse_result.hosts[1] = NetworkAddress(range_expr) + 1

====
